---------------------------- MODULE Spec2Model ----------------------------
(***************************************************************************)
(* Retrieval store of rag-service (src/src/dao.py): the MongoDB backend,   *)
(* the MockDatabase in-memory singleton and the get_database selector.     *)
(*                                                                         *)
(* Spec      callers run whole operations one after the other.             *)
(* SpecConc  callers are threads; MockDatabase.__new__, __init__ and       *)
(*           post_curriculum are interleaved statement by statement.       *)
(***************************************************************************)
EXTENDS Integers, Sequences, FiniteSets, TLC

VARIABLES
    instance,   \* MockDatabase._instance: None or the id of an object in objs
    objs,       \* heap of MockDatabase objects: id -> its attributes
    lists,      \* heap of Python lists: id -> the documents of that list
    mongoColl,  \* the documents of the MongoDB collection
    ref,        \* per caller: the MockDatabase reference it holds, or None
    call,       \* the last completed call: operation, arguments, outcome, and
                \* for MongoDB what the database did (io: whether its operation
                \* completed, cands: the candidates $vectorSearch returned)
    pc,         \* SpecConc: per thread, the statement it is at
    loc,        \* SpecConc: per thread, its local variables
    returned    \* SpecConc: per thread, how many post_curriculum returned True

vars == <<instance, objs, lists, mongoColl, ref, call, pc, loc, returned>>

----------------------------------------------------------------------------
(* Bounds *)

\* most documents stored over both backends (Spec), per run
MaxRecords == 2
\* most post_curriculum calls one thread makes (SpecConc)
MaxPosts == 1

Callers == {"c1", "c2"}

----------------------------------------------------------------------------
(* Values *)

\* Python values, tagged with their type
PyNone == [type |-> "NoneType"]
PyStr(s) == [type |-> "str", val |-> s]
PyInt(n) == [type |-> "int", val |-> n]
PyList(v) == [type |-> "list", val |-> v]

IsNone(x) == x.type = "NoneType"

\* Python truthiness: `not x`
Falsy(x) ==
    \/ x.type = "NoneType"
    \/ x.type = "str" /\ x.val = ""
    \/ x.type = "list" /\ x.val = <<>>
    \/ x.type = "int" /\ x.val = 0

\* Embeddings are integer vectors, never zero. <<1,1,0>> and <<3,4,5>> have
\* cosine similarity 7/10 exactly; <<0,0,1>> has 5/sqrt(50) > 7/10 with
\* <<3,4,5>> and 0 with <<1,1,0>>.
E1 == <<1, 1, 0>>
E2 == <<3, 4, 5>>
E3 == <<0, 0, 1>>
StoredEmbeddings == {PyList(E1), PyList(E2)}
QueryArgs == {PyList(E1), PyList(E3), PyList(<<>>)}

NameArgs == {PyStr("doc1"), PyStr("d1")}
IdArgs == {PyStr("d1"), PyStr("doc1")}
ScopeArgs == {PyStr("d1"), PyStr("doc1")}

\* arguments that pass the guards of post_curriculum; document_id is a key
\* of its own, distinct from document_name
ValidArgs ==
    {a \in [curriculum : {PyStr("alpha")}, page_num : {PyInt(1)},
            predicted_page_number : {PyInt(1)}, document_name : NameArgs,
            embedding : StoredEmbeddings, document_id : IdArgs] :
        a.document_name # a.document_id}

CanonicalArgs ==
    [curriculum |-> PyStr("alpha"), page_num |-> PyInt(1),
     predicted_page_number |-> PyInt(1), document_name |-> PyStr("doc1"),
     embedding |-> PyList(E1), document_id |-> PyStr("d1")]

\* arguments with one field empty or missing
InvalidArgs ==
    {[CanonicalArgs EXCEPT !.curriculum = PyStr("")],
     [CanonicalArgs EXCEPT !.document_name = PyStr("")],
     [CanonicalArgs EXCEPT !.document_name = PyNone],
     [CanonicalArgs EXCEPT !.page_num = PyNone],
     [CanonicalArgs EXCEPT !.embedding = PyList(<<>>)],
     [CanonicalArgs EXCEPT !.embedding = PyNone]}

PostArgs == ValidArgs \cup InvalidArgs

\* how a call ends: it returns a value or raises an exception
Return(v) == [kind |-> "return", val |-> v, msg |-> ""]
Raise(e, m) == [kind |-> "raise", val |-> e, msg |-> m]

----------------------------------------------------------------------------
(* cosine_similarity and the threshold comparison *)

RECURSIVE Dot(_, _)
Dot(a, b) == IF a = <<>> THEN 0 ELSE Head(a) * Head(b) + Dot(Tail(a), Tail(b))

\* dot(a,b) / (|a| * |b|), kept exact as the pair dot / sqrt(sq)
cosine_similarity(a, b) ==
    [dot |-> Dot(a.val, b.val), sq |-> Dot(a.val, a.val) * Dot(b.val, b.val)]

\* similarity_threshold = 0.7 = ThresholdNum / ThresholdDen
ThresholdNum == 7
ThresholdDen == 10

\* s > ThresholdNum/ThresholdDen, exactly
GreaterThanThreshold(s) ==
    /\ s.dot > 0
    /\ s.dot * s.dot * ThresholdDen * ThresholdDen > ThresholdNum * ThresholdNum * s.sq

\* s >= t for two similarities
SimGE(s, t) ==
    IF t.dot <= 0
    THEN s.dot >= 0 \/ s.dot * s.dot * t.sq <= t.dot * t.dot * s.sq
    ELSE s.dot > 0 /\ s.dot * s.dot * t.sq >= t.dot * t.dot * s.sq

----------------------------------------------------------------------------
(* MongoDB *)

\* $vectorSearch: "numCandidates": 30, "limit": 3
NumCandidates == 30
Limit == 3

Min(a, b) == IF a < b THEN a ELSE b

\* the document insert_one is given
MongoDocument(a) ==
    [text |-> a.curriculum, pageNum |-> a.page_num,
     predictedPageNumber |-> a.predicted_page_number,
     documentName |-> a.document_name, embedding |-> a.embedding,
     documentId |-> a.document_id]

\* the guards of MongoDB.post_curriculum, in order: the ValueError raised, or ""
MongoPostError(a) ==
    IF Falsy(a.curriculum) THEN "Curriculum cannot be None"
    ELSE IF IsNone(a.page_num) THEN "Page number cannot be None"
    ELSE IF IsNone(a.document_name) THEN "Paragraph number cannot be None"
    ELSE IF Falsy(a.embedding) THEN "Embedding cannot be None"
    ELSE IF Falsy(a.document_name) THEN "Document name cannot be None"
    ELSE ""

\* mutant: no try/except around insert_one
MongoInsertOutcomeUncaught(inserted) ==
    IF inserted THEN Return(TRUE) ELSE Raise("PyMongoError", "insert_one failed")

\* try: insert_one(...); return True / except: return False
MongoInsertOutcome(inserted) == IF inserted THEN Return(TRUE) ELSE Return(FALSE)

\* the candidate sets the index may hand back: at most Limit of the stored
\* documents, taken among at most NumCandidates; which ones is the index's
\* (approximate) choice
VectorSearch(coll) ==
    {S \in SUBSET (1..Len(coll)) : Cardinality(S) <= Min(Limit, NumCandidates)}

\* an exact index: the Limit nearest documents (ties broken either way)
IsTopK(S, coll, q) ==
    /\ Cardinality(S) = Min(Min(Limit, NumCandidates), Len(coll))
    /\ \A i \in S : \A j \in (1..Len(coll)) \ S :
          SimGE(cosine_similarity(q, coll[i].embedding),
                cosine_similarity(q, coll[j].embedding))

\* if document["documentId"] != document_id: continue
MongoInScope(document, document_id) == document.documentId = document_id

\* cosine_similarity(embedding, document["embedding"]) > self.similarity_threshold
MongoSimilar(embedding, document) ==
    GreaterThanThreshold(cosine_similarity(embedding, document.embedding))

MongoPage(document) ==
    [text |-> document.text, page_num |-> document.pageNum,
     document_name |-> document.documentName]

\* the filter loop of MongoDB.get_curriculum over the candidates S, from
\* candidate i on; each result keeps the index of the document it comes from
RECURSIVE MongoResults(_, _, _, _, _)
MongoResults(coll, S, document_id, embedding, i) ==
    IF i > Len(coll) THEN <<>>
    ELSE LET rest == MongoResults(coll, S, document_id, embedding, i + 1)
         IN IF /\ i \in S
               /\ MongoInScope(coll[i], document_id)
               /\ MongoSimilar(embedding, coll[i])
            THEN <<[src |-> i, page |-> MongoPage(coll[i])]>> \o rest
            ELSE rest

\* MongoDB.get_curriculum once aggregate has answered with the candidates S;
\* falsy: whether the object aggregate returned is falsy when it holds nothing
MongoGetOutcome(coll, S, falsy, document_id, embedding) ==
    IF Falsy(embedding) THEN Raise("ValueError", "Embedding cannot be None")
    ELSE IF falsy /\ S = {} THEN Raise("ValueError", "No documents found")
    ELSE Return(MongoResults(coll, S, document_id, embedding, 1))

----------------------------------------------------------------------------
(* MockDatabase *)

\* None, for _instance and for a reference not yet obtained
NoObj == 0
\* an attribute that is not set
NoList == 0

\* object.__new__(cls): no attribute set
FreshObj == [data |-> NoList, similarity_threshold |-> FALSE, initialized |-> FALSE]

\* if cls._instance is None
NeedsNew(inst) == inst = NoObj

\* mutant: __init__ initializes on every call
NeedsInitAlways(obj) == TRUE

\* if not hasattr(self, "initialized")
NeedsInit(obj) == ~obj.initialized

\* MockDatabase(): __new__ then __init__, run without interruption
Constructed(inst, os, ls) ==
    LET fresh == NeedsNew(inst)
        os1 == IF fresh THEN Append(os, FreshObj) ELSE os
        self == IF fresh THEN Len(os1) ELSE inst
        init == NeedsInit(os1[self])
        ls1 == IF init THEN Append(ls, <<>>) ELSE ls
        os2 == IF init
               THEN [os1 EXCEPT ![self] =
                        [data |-> Len(ls1), similarity_threshold |-> TRUE,
                         initialized |-> TRUE]]
               ELSE os1
    IN [instance |-> self, objs |-> os2, lists |-> ls1, self |-> self]

\* the dict post_curriculum appends
MockDocument(a) ==
    [text |-> a.curriculum, page_num |-> a.page_num,
     predicted_page_number |-> a.predicted_page_number,
     document_name |-> a.document_name, embedding |-> a.embedding,
     document_id |-> a.document_id]

\* mutant: the guard forgets `not curriculum`
MockPostInvalidNoText(a) ==
    \/ Falsy(a.document_name)
    \/ IsNone(a.page_num)
    \/ Falsy(a.embedding)

\* if not curriculum or not document_name or page_num is None or not embedding
MockPostInvalid(a) ==
    \/ Falsy(a.curriculum)
    \/ Falsy(a.document_name)
    \/ IsNone(a.page_num)
    \/ Falsy(a.embedding)

\* mutant: the scope filter is missing
MockInScopeAny(document, document_name) == TRUE

\* if document["document_name"] == document_name
MockInScope(document, document_name) == document.document_name = document_name

\* mutant: similarity >= self.similarity_threshold
MockSimilarOrEqual(embedding, document) ==
    LET s == cosine_similarity(embedding, document.embedding)
    IN /\ s.dot > 0
       /\ s.dot * s.dot * ThresholdDen * ThresholdDen
             >= ThresholdNum * ThresholdNum * s.sq

\* similarity > self.similarity_threshold
MockSimilar(embedding, document) ==
    GreaterThanThreshold(cosine_similarity(embedding, document.embedding))

MockPage(document) ==
    [text |-> document.text, page_num |-> document.page_num,
     document_name |-> document.document_name]

\* the loop of MockDatabase.get_curriculum over self.data, from document i on
RECURSIVE MockResults(_, _, _, _)
MockResults(data, document_name, embedding, i) ==
    IF i > Len(data) THEN <<>>
    ELSE LET rest == MockResults(data, document_name, embedding, i + 1)
         IN IF /\ MockInScope(data[i], document_name)
               /\ MockSimilar(embedding, data[i])
            THEN <<[src |-> i, page |-> MockPage(data[i])]>> \o rest
            ELSE rest

MockGetOutcome(data, document_name, embedding) ==
    IF Falsy(embedding) THEN Raise("ValueError", "Embedding cannot be None")
    ELSE Return(MockResults(data, document_name, embedding, 1))

\* self.data of the object a caller's reference denotes
DataOf(r) == lists[objs[r].data]

----------------------------------------------------------------------------
(* get_database *)

UpperCase == <<"A","B","C","D","E","F","G","H","I","J","K","L","M",
               "N","O","P","Q","R","S","T","U","V","W","X","Y","Z">>
LowerCase == <<"a","b","c","d","e","f","g","h","i","j","k","l","m",
               "n","o","p","q","r","s","t","u","v","w","x","y","z">>

LowerChar(ch) ==
    IF \E i \in DOMAIN UpperCase : UpperCase[i] = ch
    THEN LowerCase[CHOOSE i \in DOMAIN UpperCase : UpperCase[i] = ch]
    ELSE ch

\* str.lower(); a string is the sequence of its characters
Lower(s) == [i \in 1..Len(s) |-> LowerChar(s[i])]

KindMock == <<"m","o","c","k">>
KindMongodb == <<"m","o","n","g","o","d","b">>

\* values RAG_DATABASE_SYSTEM may be configured with
KindArgs ==
    {KindMock, KindMongodb, <<"M","o","c","k">>, <<"M","o","n","g","o","D","B">>,
     <<>>, <<"s","q","l">>}

\* mutant: match RAG_DATABASE_SYSTEM, not lower-cased
MatchSubjectAsIs(kind) == kind

\* match RAG_DATABASE_SYSTEM.lower()
MatchSubject(kind) == Lower(kind)

\* the case taken: "mock", "mongodb" or "_"
GetDatabaseCase(kind) ==
    IF MatchSubject(kind) = KindMock THEN "mock"
    ELSE IF MatchSubject(kind) = KindMongodb THEN "mongodb"
    ELSE "_"

----------------------------------------------------------------------------
(* Spec: whole operations, one caller at a time *)

RECURSIVE SumLen(_)
SumLen(ls) == IF ls = <<>> THEN 0 ELSE Len(Head(ls)) + SumLen(Tail(ls))

\* documents stored so far, over both backends
StoredCount == Len(mongoColl) + SumLen(lists)

NoArgs == [none |-> TRUE]

Init ==
    /\ instance = NoObj
    /\ objs = <<>>
    /\ lists = <<>>
    /\ mongoColl = <<>>
    /\ ref = [c \in Callers |-> NoObj]
    /\ call = [op |-> "none", backend |-> "none", caller |-> "none",
               args |-> NoArgs, result |-> Return(FALSE), cands |-> {}, io |-> TRUE]
    /\ pc = [c \in Callers |-> "start"]
    /\ loc = [c \in Callers |-> [isNone |-> FALSE, self |-> NoObj, lst |-> NoList]]
    /\ returned = [c \in Callers |-> 0]

ConcVars == <<pc, loc, returned>>

\* db = MockDatabase()
Construct(c) ==
    LET r == Constructed(instance, objs, lists)
    IN /\ instance' = r.instance
       /\ objs' = r.objs
       /\ lists' = r.lists
       /\ ref' = [ref EXCEPT ![c] = r.self]
       /\ call' = [op |-> "construct", backend |-> "mock", caller |-> c,
                   args |-> NoArgs,
                   result |-> Return([class |-> "MockDatabase", id |-> r.self]),
                   cands |-> {}, io |-> TRUE]
       /\ UNCHANGED <<mongoColl, ConcVars>>

\* db = get_database(), with RAG_DATABASE_SYSTEM = kind
GetDatabase(c, kind) ==
    LET case == GetDatabaseCase(kind)
        r == Constructed(instance, objs, lists)
    IN /\ IF case = "mock"
          THEN /\ instance' = r.instance
               /\ objs' = r.objs
               /\ lists' = r.lists
               /\ ref' = [ref EXCEPT ![c] = r.self]
          ELSE UNCHANGED <<instance, objs, lists, ref>>
       /\ call' = [op |-> "get_database", backend |-> "none", caller |-> c,
                   args |-> [kind |-> kind],
                   result |->
                       IF case = "mock"
                       THEN Return([class |-> "MockDatabase", id |-> r.self])
                       ELSE IF case = "mongodb"
                       THEN Return([class |-> "MongoDB", id |-> NoObj])
                       ELSE Raise("ValueError", "Invalid database type"),
                   cands |-> {}, io |-> TRUE]
       /\ UNCHANGED <<mongoColl, ConcVars>>

\* ref[c].post_curriculum(...) on the MockDatabase
MockPost(c, a) ==
    /\ ref[c] # NoObj
    /\ MockPostInvalid(a) \/ StoredCount < MaxRecords
    /\ IF MockPostInvalid(a)
       THEN /\ call' = [op |-> "post", backend |-> "mock", caller |-> c, args |-> a,
                        result |-> Raise("ValueError",
                                         "All parameters are required and must be valid"),
                        cands |-> {}, io |-> TRUE]
            /\ UNCHANGED lists
       ELSE /\ lists' = [lists EXCEPT ![objs[ref[c]].data] = Append(@, MockDocument(a))]
            /\ call' = [op |-> "post", backend |-> "mock", caller |-> c, args |-> a,
                        result |-> Return(TRUE), cands |-> {}, io |-> TRUE]
    /\ UNCHANGED <<instance, objs, mongoColl, ref, ConcVars>>

\* ref[c].get_curriculum(document_name, embedding) on the MockDatabase
MockGet(c, document_name, embedding) ==
    /\ ref[c] # NoObj
    /\ call' = [op |-> "get", backend |-> "mock", caller |-> c,
                args |-> [scope |-> document_name, embedding |-> embedding],
                result |-> MockGetOutcome(DataOf(ref[c]), document_name, embedding),
                cands |-> {}, io |-> TRUE]
    /\ UNCHANGED <<instance, objs, lists, mongoColl, ref, ConcVars>>

\* MongoDB().post_curriculum(...); inserted: whether insert_one completed
\* (rejected arguments raise before insert_one is called)
MongoPost(a, inserted) ==
    /\ MongoPostError(a) # "" \/ StoredCount < MaxRecords
    /\ MongoPostError(a) # "" => inserted
    /\ IF MongoPostError(a) # ""
       THEN /\ call' = [op |-> "post", backend |-> "mongodb", caller |-> "none",
                        args |-> a, result |-> Raise("ValueError", MongoPostError(a)),
                        cands |-> {}, io |-> TRUE]
            /\ UNCHANGED mongoColl
       ELSE /\ mongoColl' = IF inserted THEN Append(mongoColl, MongoDocument(a))
                            ELSE mongoColl
            /\ call' = [op |-> "post", backend |-> "mongodb", caller |-> "none",
                        args |-> a,
                        result |-> MongoInsertOutcome(inserted), cands |-> {},
                        io |-> inserted]
    /\ UNCHANGED <<instance, objs, lists, ref, ConcVars>>

\* what aggregate may do: fail, or answer with candidates S in an object that
\* is falsy or not when it holds nothing
Replies(coll) ==
    {[answered |-> FALSE, S |-> {}, falsy |-> FALSE]} \cup
    {[answered |-> TRUE, S |-> S, falsy |-> f] :
        S \in VectorSearch(coll), f \in BOOLEAN}

\* MongoDB().get_curriculum(document_id, embedding); reply: what aggregate did
\* (an empty embedding raises before aggregate is called)
MongoGet(document_id, embedding, reply) ==
    /\ Falsy(embedding) => reply.answered /\ reply.S = {} /\ ~reply.falsy
    /\ reply.S # {} => ~reply.falsy
    /\ call' = [op |-> "get", backend |-> "mongodb", caller |-> "none",
                args |-> [scope |-> document_id, embedding |-> embedding],
                result |->
                    IF Falsy(embedding) \/ reply.answered
                    THEN MongoGetOutcome(mongoColl, reply.S, reply.falsy,
                                         document_id, embedding)
                    ELSE Raise("PyMongoError", "aggregate failed"),
                cands |-> reply.S,
                io |-> reply.answered]
    /\ UNCHANGED <<instance, objs, lists, mongoColl, ref, ConcVars>>

Next ==
    \/ \E c \in Callers : Construct(c)
    \/ \E c \in Callers, kind \in KindArgs : GetDatabase(c, kind)
    \/ \E c \in Callers, a \in PostArgs : MockPost(c, a)
    \/ \E c \in Callers, n \in ScopeArgs, q \in QueryArgs : MockGet(c, n, q)
    \/ \E a \in PostArgs, inserted \in BOOLEAN : MongoPost(a, inserted)
    \/ \E d \in ScopeArgs, q \in QueryArgs, reply \in Replies(mongoColl) :
          MongoGet(d, q, reply)

Spec == Init /\ [][Next]_vars

----------------------------------------------------------------------------
(* SpecConc: each caller is a thread that obtains the MockDatabase and posts; *)
(* a thread switch may fall between any two statements                        *)

SeqVars == <<mongoColl, call>>

Goto(t, label) == pc' = [pc EXCEPT ![t] = label]

\* __new__: if cls._instance is None
NewCheck(t) ==
    /\ pc[t] = "start"
    /\ loc' = [loc EXCEPT ![t].isNone = NeedsNew(instance)]
    /\ Goto(t, IF NeedsNew(instance) THEN "new_create" ELSE "new_return")
    /\ UNCHANGED <<instance, objs, lists, ref, returned, SeqVars>>

\* __new__: cls._instance = super(MockDatabase, cls).__new__(cls, ...)
NewCreate(t) ==
    /\ pc[t] = "new_create"
    /\ objs' = Append(objs, FreshObj)
    /\ instance' = Len(objs) + 1
    /\ Goto(t, "new_return")
    /\ UNCHANGED <<lists, ref, loc, returned, SeqVars>>

\* __new__: return cls._instance
NewReturn(t) ==
    /\ pc[t] = "new_return"
    /\ loc' = [loc EXCEPT ![t].self = instance]
    /\ Goto(t, "init_check")
    /\ UNCHANGED <<instance, objs, lists, ref, returned, SeqVars>>

\* __init__: if not hasattr(self, "initialized"); when it is set, __init__
\* returns and the caller holds the reference
InitCheck(t) ==
    /\ pc[t] = "init_check"
    /\ IF NeedsInit(objs[loc[t].self])
       THEN /\ Goto(t, "init_data")
            /\ UNCHANGED ref
       ELSE /\ Goto(t, "ready")
            /\ ref' = [ref EXCEPT ![t] = loc[t].self]
    /\ UNCHANGED <<instance, objs, lists, loc, returned, SeqVars>>

\* __init__: self.data = []
InitData(t) ==
    /\ pc[t] = "init_data"
    /\ lists' = Append(lists, <<>>)
    /\ objs' = [objs EXCEPT ![loc[t].self].data = Len(lists) + 1]
    /\ Goto(t, "init_threshold")
    /\ UNCHANGED <<instance, ref, loc, returned, SeqVars>>

\* __init__: self.similarity_threshold = 0.7
InitThreshold(t) ==
    /\ pc[t] = "init_threshold"
    /\ objs' = [objs EXCEPT ![loc[t].self].similarity_threshold = TRUE]
    /\ Goto(t, "init_flag")
    /\ UNCHANGED <<instance, lists, ref, loc, returned, SeqVars>>

\* __init__: self.initialized = True
InitFlag(t) ==
    /\ pc[t] = "init_flag"
    /\ objs' = [objs EXCEPT ![loc[t].self].initialized = TRUE]
    /\ ref' = [ref EXCEPT ![t] = loc[t].self]
    /\ Goto(t, "ready")
    /\ UNCHANGED <<instance, lists, loc, returned, SeqVars>>

\* post_curriculum with valid arguments: the guard passes and self.data is
\* loaded for the call of append
PostLoad(t) ==
    /\ pc[t] = "ready"
    /\ returned[t] < MaxPosts
    /\ loc' = [loc EXCEPT ![t].lst = objs[ref[t]].data]
    /\ Goto(t, "post_append")
    /\ UNCHANGED <<instance, objs, lists, ref, returned, SeqVars>>

\* post_curriculum: .append({...}) on the list loaded, then return True
PostAppend(t, a) ==
    /\ pc[t] = "post_append"
    /\ ~MockPostInvalid(a)
    /\ lists' = [lists EXCEPT ![loc[t].lst] = Append(@, MockDocument(a))]
    /\ returned' = [returned EXCEPT ![t] = @ + 1]
    /\ Goto(t, "ready")
    /\ UNCHANGED <<instance, objs, ref, loc, SeqVars>>

\* the thread makes no further call
Finish(t) ==
    /\ pc[t] = "ready"
    /\ Goto(t, "done")
    /\ UNCHANGED <<instance, objs, lists, ref, loc, returned, SeqVars>>

NextConc ==
    \/ \E t \in Callers : NewCheck(t)
    \/ \E t \in Callers : NewCreate(t)
    \/ \E t \in Callers : NewReturn(t)
    \/ \E t \in Callers : InitCheck(t)
    \/ \E t \in Callers : InitData(t)
    \/ \E t \in Callers : InitThreshold(t)
    \/ \E t \in Callers : InitFlag(t)
    \/ \E t \in Callers : PostLoad(t)
    \/ \E t \in Callers, a \in PostArgs : PostAppend(t, a)
    \/ \E t \in Callers : Finish(t)

SpecConc == Init /\ [][NextConc]_vars

----------------------------------------------------------------------------
(* Properties *)

\* the collection the last call ran against
StoreOfCall == IF call.backend = "mock" THEN DataOf(ref[call.caller]) ELSE mongoColl

\* a stored document's fields, whichever backend's keys it uses
DocScopeKey(b, d) == IF b = "mock" THEN d.document_name ELSE d.documentId
DocId(b, d) == IF b = "mock" THEN d.document_id ELSE d.documentId
DocPage(b, d) ==
    IF b = "mock"
    THEN [text |-> d.text, page_num |-> d.page_num, document_name |-> d.document_name]
    ELSE [text |-> d.text, page_num |-> d.pageNum, document_name |-> d.documentName]

GetReturned == call.op = "get" /\ call.result.kind = "return"

\* the documents of the store the results of the last get come from
ResultSources == {call.result.val[j].src : j \in DOMAIN call.result.val}

\* the similarity of the last get's query to a stored document
QuerySimilarity(d) == cosine_similarity(call.args.embedding, d.embedding)

\* C1: after postContext(text, documentName, npc, E, D) returned true, a
\* later getContext(D, E) returns a result containing the Context of that
\* record, for either backend (for MongoDB: with an exact index). Stores only
\* grow, so the records posted with success are the records stored.
C1_RoundTrip ==
    (/\ GetReturned
     /\ call.backend = "mongodb" => IsTopK(call.cands, mongoColl, call.args.embedding))
    => \A i \in DOMAIN StoreOfCall :
          (/\ DocId(call.backend, StoreOfCall[i]) = call.args.scope
           /\ StoreOfCall[i].embedding = call.args.embedding)
          => \E j \in DOMAIN call.result.val :
                call.result.val[j].page = DocPage(call.backend, StoreOfCall[i])

C3_StrictThreshold ==
    GetReturned =>
        \A i \in ResultSources :
            LET s == QuerySimilarity(StoreOfCall[i])
            IN /\ s.dot > 0
               /\ 100 * s.dot * s.dot > 49 * s.sq

\* C3 witness: an in-scope candidate with similarity exactly 7/10 was left
\* out while another document was returned
C3_Witness ==
    /\ GetReturned
    /\ call.result.val # <<>>
    /\ \E i \in DOMAIN StoreOfCall :
          LET s == QuerySimilarity(StoreOfCall[i])
          IN /\ DocScopeKey(call.backend, StoreOfCall[i]) = call.args.scope
             /\ s.dot > 0 /\ 100 * s.dot * s.dot = 49 * s.sq
             /\ call.backend = "mongodb" => i \in call.cands
             /\ i \notin ResultSources

\* C4: getContext with a non-empty query that no in-scope document exceeds
\* the threshold for returns an empty result and does not raise (the database
\* having answered).
C4_NoMatchIsEmpty ==
    (/\ call.op = "get"
     /\ ~Falsy(call.args.embedding)
     /\ call.io
     /\ \A i \in DOMAIN StoreOfCall :
           ~(/\ DocScopeKey(call.backend, StoreOfCall[i]) = call.args.scope
             /\ GreaterThanThreshold(QuerySimilarity(StoreOfCall[i]))))
    => call.result.kind = "return" /\ call.result.val = <<>>

\* the preconditions of postContext are violated
ArgsInvalid(a) ==
    \/ Falsy(a.curriculum)
    \/ Falsy(a.document_name)
    \/ IsNone(a.page_num)
    \/ Falsy(a.embedding)

\* no stored document has an empty text, a missing name or embedding, or a
\* null page number
StoredValid ==
    /\ \A l \in DOMAIN lists : \A i \in DOMAIN lists[l] :
          LET d == lists[l][i]
          IN ~Falsy(d.text) /\ ~Falsy(d.document_name) /\ ~IsNone(d.page_num)
             /\ ~Falsy(d.embedding)
    /\ \A i \in DOMAIN mongoColl :
          LET d == mongoColl[i]
          IN ~Falsy(d.text) /\ ~Falsy(d.documentName) /\ ~IsNone(d.pageNum)
             /\ ~Falsy(d.embedding)

\* C5: postContext with an empty text, a missing or empty documentName, a
\* missing or empty embedding or a null npc raises ValueError and leaves every
\* collection as it was; no such record is ever stored.
C5_RejectedStoreNothing ==
    /\ []StoredValid
    /\ [][(call'.op = "post" /\ ArgsInvalid(call'.args))
            => /\ call'.result.kind = "raise"
               /\ call'.result.val = "ValueError"
               /\ lists' = lists
               /\ mongoColl' = mongoColl]_vars

\* C5 witness: a post was rejected while documents are stored
C5_Witness ==
    /\ call.op = "post"
    /\ ArgsInvalid(call.args)
    /\ call.result.kind = "raise"
    /\ StoredCount > 0

\* C6: with its preconditions met, MongoDB's postContext raises nothing; it
\* returns false when insert_one failed and true when it completed, and then
\* the record is the last of the collection.
C6_FailureIsFalse ==
    (call.op = "post" /\ call.backend = "mongodb" /\ ~ArgsInvalid(call.args))
    => /\ call.result.kind = "return"
       /\ call.result.val = call.io
       /\ call.result.val =>
             /\ mongoColl # <<>>
             /\ mongoColl[Len(mongoColl)] = MongoDocument(call.args)

\* C6 witness: insert_one failed on valid arguments and false came back
C6_Witness ==
    /\ call.op = "post"
    /\ call.backend = "mongodb"
    /\ ~ArgsInvalid(call.args)
    /\ ~call.io
    /\ call.result.kind = "return"

IsPrefix(a, b) == Len(a) <= Len(b) /\ \A i \in DOMAIN a : a[i] = b[i]

Selected == IF call.result.kind = "return" THEN call.result.val.class ELSE call.result.val

\* C8 as stated: MongoDB exactly for "mongodb", MockDatabase exactly for
\* "mock", ValueError for every other value, "Mock" and "" included.
C8_ExactKinds ==
    call.op = "get_database" =>
        /\ Selected = "MongoDB" <=> call.args.kind = KindMongodb
        /\ Selected = "MockDatabase" <=> call.args.kind = KindMock
        /\ call.args.kind \notin {KindMongodb, KindMock} =>
              call.result.kind = "raise" /\ Selected = "ValueError"

\* C8 amended: the configured value is lower-cased first. MongoDB exactly for
\* the values whose lower-casing is "mongodb", the MockDatabase instance
\* exactly for those whose lower-casing is "mock", ValueError for all others.
C8_LowerCasedKinds ==
    call.op = "get_database" =>
        LET k == Lower(call.args.kind)
        IN /\ Selected = "MongoDB" <=> k = KindMongodb
           /\ Selected = "MockDatabase" <=> k = KindMock
           /\ Selected = "MockDatabase" =>
                 ref[call.caller] = instance /\ instance # NoObj
           /\ k \notin {KindMongodb, KindMock} =>
                 call.result.kind = "raise" /\ Selected = "ValueError"

\* C8 witness: "Mock" selected the MockDatabase
C8_Witness ==
    /\ call.op = "get_database"
    /\ call.args.kind = <<"M", "o", "c", "k">>
    /\ Selected = "MockDatabase"

RECURSIVE TotalReturned(_)
TotalReturned(T) ==
    IF T = {} THEN 0
    ELSE LET t == CHOOSE x \in T : TRUE IN returned[t] + TotalReturned(T \ {t})

AllDone == \A t \in Callers : pc[t] = "done"

\* C9: once every thread is done, the shared collection (the data of
\* MockDatabase._instance) holds one record for every postContext that
\* returned true.
C9_NoLostWrites ==
    AllDone =>
        /\ instance # NoObj
        /\ objs[instance].data # NoList
        /\ Len(lists[objs[instance].data]) = TotalReturned(Callers)

\* the two backends were given the same posts, all stored
SameHistory(data, coll) ==
    /\ Len(data) = Len(coll)
    /\ \A i \in DOMAIN data :
          /\ data[i].text = coll[i].text
          /\ data[i].page_num = coll[i].pageNum
          /\ data[i].predicted_page_number = coll[i].predictedPageNumber
          /\ data[i].document_name = coll[i].documentName
          /\ data[i].embedding = coll[i].embedding
          /\ data[i].document_id = coll[i].documentId

\* C10: after the same successful posts, and with an exact index, both
\* backends answer every getContext(scope, q) with the same records.
C10_Parity ==
    \A c \in Callers :
        (ref[c] # NoObj /\ SameHistory(DataOf(ref[c]), mongoColl)) =>
            \A scope \in ScopeArgs, q \in QueryArgs \ {PyList(<<>>)} :
                \A S \in VectorSearch(mongoColl) :
                    IsTopK(S, mongoColl, q) =>
                        MockGetOutcome(DataOf(ref[c]), scope, q)
                            = MongoGetOutcome(mongoColl, S, FALSE, scope, q)

=============================================================================
